---- MODULE Spec2Model ----
(***************************************************************************)
(* Model of the headless combobox state manager (src/src/combobox.ts):     *)
(* the Model value, init, update (skip step, updateModel, updateSetters,   *)
(* effects, suppression scheduling) and the selectors the properties use.  *)
(*                                                                         *)
(* Conventions.  A JavaScript object is a record and an object spread      *)
(* {...model, k: v} is Spread(model, [k |-> v]).  The value is the one the *)
(* type Model<TItem> declares: highlightIndex exists in phase              *)
(* focused__opened__highlighted only and focusedIndex in phase             *)
(* selected-item-highlighted only.  (At run time a spread carries the      *)
(* property over into the other phases; nothing reads it there, and every  *)
(* transition into one of the two phases assigns it.)  Arrays are          *)
(* sequences, read through At with the source's 0-based indices.  A string *)
(* that the code inspects (input text, item label) is a sequence of        *)
(* one-character strings, so that toLowerCase and includes are computed,   *)
(* not assumed.  null and undefined are the value Null.                    *)
(*                                                                         *)
(* The state is the Model the caller holds.  Each action is one call of    *)
(* update with one Msg; a property of update is stated over every reachable*)
(* model and every Msg of the event alphabet.                              *)
(***************************************************************************)
EXTENDS Integers, Sequences, FiniteSets, TLC

VARIABLES model

vars == <<model>>

(***************************************************************************)
(* Bounds                                                                  *)
(***************************************************************************)

\* longest skipOnce list the exploration follows (the code never trims it)
MaxSkip == 2

(***************************************************************************)
(* Items, texts and the caller's configuration                             *)
(***************************************************************************)

Null == [type |-> "null"]

ItemA == [id |-> 1, label |-> <<"a">>]
ItemB == [id |-> 2, label |-> <<"A", "b">>]
ItemC == [id |-> 3, label |-> <<"c">>]
\* the sentinel "no selection" item of the configuration
ItemNone == [id |-> 0, label |-> <<"-">>]

Items == {ItemA, ItemB, ItemC, ItemNone}

EmptyText == <<>>

\* the config's toItemId
toItemId(item) == item.id

\* the config's toItemInputValue
toItemInputValue(item) == item.label

\* the config's isEmptyItem
isEmptyItem(item) == item.id = 0

(***************************************************************************)
(* JavaScript primitives                                                   *)
(***************************************************************************)

\* the properties type ModelState declares for a phase, beside the shared ones
PhaseFields(type) ==
    CASE type = "focused__opened__highlighted" -> {"highlightIndex"}
      [] type = "selected-item-highlighted" -> {"focusedIndex"}
      [] OTHER -> {}

\* {...model, ...overrides} as a value of type Model<TItem>
Spread(m, overrides) ==
    LET all == overrides @@ m
        keep == (DOMAIN all \ {"highlightIndex", "focusedIndex"})
                    \cup (DOMAIN all \cap PhaseFields(all.type))
    IN  [f \in keep |-> all[f]]

\* arr[index]: undefined outside 0..length-1
At(arr, index) == IF index \in 0 .. (Len(arr) - 1) THEN arr[index + 1] ELSE Null

\* A callback (x) => boolean handed to an array method is the function that
\* maps each element of the array to the callback's result.
Elems(arr) == {arr[i] : i \in 1 .. Len(arr)}

\* arr.findIndex(p)
FindIndex(arr, p) ==
    IF \E i \in 1 .. Len(arr) : p[arr[i]]
    THEN (CHOOSE i \in 1 .. Len(arr) :
              p[arr[i]] /\ \A j \in 1 .. (i - 1) : ~p[arr[j]]) - 1
    ELSE -1

\* arr.filter(p)
Filter(arr, p) ==
    LET Test(x) == p[x]
    IN  SelectSeq(arr, Test)

\* arr.some(p)
Some(arr, p) == \E i \in 1 .. Len(arr) : p[arr[i]]

\* arr.filter((_, i) => i !== 0), whatever the index
RemoveAtHead(arr, index) == IF Len(arr) = 0 THEN arr ELSE Tail(arr)

\* arr.filter((_, i) => i !== index)
RemoveAt(arr, index) ==
    IF index \in 0 .. (Len(arr) - 1)
    THEN SubSeq(arr, 1, index) \o SubSeq(arr, index + 2, Len(arr))
    ELSE arr

\* arr.slice(1)
Slice1(arr) == IF Len(arr) = 0 THEN <<>> ELSE Tail(arr)

\* one character of String.prototype.toLowerCase
LowerChar(c) ==
    CASE c = "A" -> "a"
      [] c = "B" -> "b"
      [] c = "C" -> "c"
      [] OTHER -> c

\* String.prototype.toLowerCase
toLowerCase(s) == [i \in 1 .. Len(s) |-> LowerChar(s[i])]

\* String.prototype.includes
StrIncludes(s, sub) ==
    \E i \in 0 .. (Len(s) - Len(sub)) : SubSeq(s, i + 1, i + Len(sub)) = sub

(***************************************************************************)
(* ./non-empty and ./utils                                                 *)
(***************************************************************************)

isNonEmpty(arr) == Len(arr) > 0

removeFirst(predicate, arr) ==
    LET index == FindIndex(arr, predicate)
    IN  IF index = -1
        THEN arr
        ELSE SubSeq(arr, 1, index) \o SubSeq(arr, index + 2, Len(arr))

\* circularIndex stopping at the ends of the list instead of wrapping around
circularIndexStopping(index, length) ==
    IF length = 0 THEN 0
    ELSE IF index < 0 THEN 0
    ELSE IF index > length - 1 THEN length - 1
    ELSE index

circularIndex(index, length) ==
    IF length = 0 THEN 0 ELSE ((index % length) + length) % length

\* an index that wraps around at both ends instead of stopping
clampIndexWrapping(index, length) == circularIndex(index, length)

clampIndex(index, length) ==
    LET lo == IF index < 0 THEN 0 ELSE index
    IN  IF lo > length - 1 THEN length - 1 ELSE lo

(***************************************************************************)
(* Selectors on the phase                                                  *)
(***************************************************************************)

isSelected(m) == isNonEmpty(m.selectedItems)

isOpened(m) ==
    m.type = "focused__opened" \/ m.type = "focused__opened__highlighted"

isClosed(m) == ~isOpened(m)

isHighlighted(m) == m.type = "focused__opened__highlighted"

isBlurred(m) == m.type = "blurred"

isSelectedItemHighlighted(m) == m.type = "selected-item-highlighted"

isFocused(m) == ~isBlurred(m)

(***************************************************************************)
(* Input value                                                             *)
(***************************************************************************)

\* setInputValue without the test of the input mode
setInputValueAlways(m, inputValue) ==
    Spread(m, [inputMode |->
                 [type |-> "search-mode", inputValue |-> inputValue]])

setInputValue(m, inputValue) ==
    IF m.inputMode.type = "search-mode"
    THEN Spread(m, [inputMode |->
                      [type |-> "search-mode", inputValue |-> inputValue]])
    ELSE m

clearInputValue(m) == setInputValue(m, EmptyText)

toSearchValue(m) ==
    IF m.inputMode.type = "search-mode" THEN m.inputMode.inputValue
    ELSE EmptyText

\* allItems.find(isEmptyItem), then its text or ""
EmptyItemText(m) ==
    LET i == FindIndex(m.allItems,
                       [x \in Elems(m.allItems) |-> isEmptyItem(x)])
    IN  IF i = -1 THEN EmptyText ELSE toItemInputValue(At(m.allItems, i))

modelToInputValue(m) ==
    IF m.inputMode.type = "select-only" /\ m.selectMode.type = "multi-select"
    THEN EmptyText
    ELSE IF m.inputMode.type = "select-only"
    THEN IF isSelected(m)
         THEN toItemInputValue(m.selectedItems[1])
         ELSE IF isHighlighted(m)
         THEN LET item == At(m.allItems, m.highlightIndex)
              IN  IF item = Null THEN EmptyItemText(m)
                  ELSE toItemInputValue(item)
         ELSE EmptyItemText(m)
    ELSE IF isSelected(m) /\ m.selectMode.type = "single-select"
    THEN toItemInputValue(m.selectedItems[1])
    ELSE EmptyText

\* resetInputValue leaving the stored text as it is
resetInputValueKeeping(m) == m

resetInputValue(m) == setInputValue(m, modelToInputValue(m))

\* toCurrentInputValue showing the stored search text also when blurred
toCurrentInputValueStored(m) ==
    IF m.inputMode.type = "select-only" THEN modelToInputValue(m)
    ELSE toSearchValue(m)

toCurrentInputValue(m) ==
    IF m.inputMode.type = "select-only" THEN modelToInputValue(m)
    ELSE IF m.type = "blurred" THEN modelToInputValue(m)
    ELSE toSearchValue(m)

(***************************************************************************)
(* Visible items                                                           *)
(***************************************************************************)

simpleFilter(m) ==
    Filter(m.allItems,
           [item \in Elems(m.allItems) |->
                StrIncludes(toLowerCase(toItemInputValue(item)),
                            toLowerCase(toCurrentInputValue(m)))])

\* the deterministicFilter of the config that initConfig returns
deterministicFilter(m) == simpleFilter(m)

toVisibleItems(m) ==
    IF m.inputMode.type = "select-only" THEN m.allItems
    ELSE deterministicFilter(m)

(***************************************************************************)
(* Selectors on items                                                      *)
(***************************************************************************)

toSelectedItem(m) ==
    IF isNonEmpty(m.selectedItems) THEN m.selectedItems[1] ELSE Null

\* isItemSelected comparing the item with the first selected item only
isItemSelectedFirst(m, item) ==
    /\ Len(m.selectedItems) > 0
    /\ toItemId(m.selectedItems[1]) = toItemId(item)

isItemSelected(m, item) ==
    Some(m.selectedItems,
         [x \in Elems(m.selectedItems) |-> toItemId(x) = toItemId(item)])

toHighlightedItem(m) ==
    IF m.type = "focused__opened__highlighted"
    THEN At(toVisibleItems(m), m.highlightIndex)
    ELSE Null

\* Boolean(highlightedItem && toItemId(highlightedItem) === toItemId(item))
isItemHighlighted(m, item) ==
    /\ toHighlightedItem(m) # Null
    /\ toItemId(toHighlightedItem(m)) = toItemId(item)

\* number | null: the null result is written NullIndex
NullIndex == -1

toSelectedItemIndex(m) ==
    LET visible == toVisibleItems(m)
        selectedIndex ==
            FindIndex(visible,
                      [item \in Elems(visible) |-> isItemSelected(m, item)])
    IN  IF selectedIndex = -1 THEN NullIndex ELSE selectedIndex

\* selectedItemIndex ? selectedItemIndex : 0
IndexOrZero(i) == IF i = NullIndex \/ i = 0 THEN 0 ELSE i

addSelected(mode, item, selectedItems) ==
    IF mode.type = "single-select" THEN <<item>>
    ELSE LET selectedItemsNew == Append(selectedItems, item)
         IN  IF isNonEmpty(selectedItemsNew) THEN selectedItemsNew
             ELSE <<item>>

\* selectedItems.filter((x) => toItemId(x) !== toItemId(item))
RemoveById(selectedItems, item) ==
    Filter(selectedItems,
           [x \in Elems(selectedItems) |-> toItemId(x) # toItemId(item)])

\* selectedItems.findIndex((x) => toItemId(x) === toItemId(item))
IndexById(selectedItems, item) ==
    FindIndex(selectedItems,
              [x \in Elems(selectedItems) |-> toItemId(x) = toItemId(item)])

isSelectedItemFocused(m, selectedItem) ==
    /\ isSelectedItemHighlighted(m)
    /\ IndexById(m.selectedItems, selectedItem) = m.focusedIndex

toggleSelected(m, item) ==
    IF ~isSelected(m) THEN m
    ELSE IF m.selectMode.type = "single-select"
    THEN LET modelNew ==
                 Spread(m, [type |-> "focused__closed",
                            selectedItems |->
                                addSelected(m.selectMode, item,
                                            m.selectedItems)])
         IN  setInputValue(modelNew, modelToInputValue(modelNew))
    ELSE IF ~isItemSelected(m, item)
    THEN LET modelNew ==
                 Spread(m, [type |-> "focused__closed",
                            selectedItems |->
                                addSelected(m.selectMode, item,
                                            m.selectedItems)])
         IN  setInputValue(modelNew, modelToInputValue(modelNew))
    ELSE LET removed == RemoveById(m.selectedItems, item)
         IN  IF isNonEmpty(removed)
             THEN setInputValue(
                      Spread(m, [type |-> "focused__closed",
                                 selectedItems |-> removed]),
                      modelToInputValue(m))
             ELSE setInputValue(Spread(m, [type |-> "focused__closed"]),
                                modelToInputValue(m))

updateKeyboardNavigationForSelections(m, e) ==
    IF ~isSelected(m) THEN m
    ELSE IF e.type # "pressed-horizontal-arrow-key" THEN m
    ELSE IF m.selectMode.type # "multi-select" THEN m
    ELSE IF "inputValue" \in DOMAIN m /\ toSearchValue(m) # EmptyText THEN m
    ELSE IF m.selectMode.selectedItemListDirection = "right-to-left"
            /\ e.key = "arrow-left"
    THEN Spread(m, [type |-> "selected-item-highlighted", focusedIndex |-> 0])
    ELSE IF m.selectMode.selectedItemListDirection = "left-to-right"
            /\ e.key = "arrow-right"
    THEN Spread(m, [type |-> "selected-item-highlighted", focusedIndex |-> 0])
    ELSE m

(***************************************************************************)
(* updateSetters                                                           *)
(***************************************************************************)

\* updateSetters with set-all-items also dropping the selected items that
\* the new list does not contain
updateSettersPruning(m, e) ==
    IF e.type = "set-all-items"
    THEN Spread(m, [allItems |-> e.allItems,
                    selectedItems |->
                        Filter(m.selectedItems,
                               [x \in Elems(m.selectedItems) |->
                                    \E i \in 1 .. Len(e.allItems) :
                                        toItemId(e.allItems[i])
                                            = toItemId(x)])])
    ELSE IF e.type = "set-selected-items"
    THEN IF isSelected(m)
         THEN Spread(m, [selectedItems |-> e.selectedItems])
         ELSE Spread(m, [type |-> "blurred",
                         selectedItems |-> e.selectedItems])
    ELSE IF e.type = "set-input-value"
    THEN IF m.inputMode.type = "search-mode"
         THEN Spread(m, [inputMode |-> [type |-> "search-mode",
                                        inputValue |-> e.inputValue]])
         ELSE m
    ELSE IF e.type = "set-highlight-index"
    THEN IF isHighlighted(m)
         THEN Spread(m, [highlightIndex |-> e.highlightIndex])
         ELSE m
    ELSE IF e.type = "set-mode"
    THEN Spread(m, [selectMode |-> e.mode])
    ELSE m

updateSetters(m, e) ==
    IF e.type = "set-all-items"
    THEN Spread(m, [allItems |-> e.allItems])
    ELSE IF e.type = "set-selected-items"
    THEN IF isSelected(m)
         THEN Spread(m, [selectedItems |-> e.selectedItems])
         ELSE Spread(m, [type |-> "blurred",
                         selectedItems |-> e.selectedItems])
    ELSE IF e.type = "set-input-value"
    THEN IF m.inputMode.type = "search-mode"
         THEN Spread(m, [inputMode |-> [type |-> "search-mode",
                                        inputValue |-> e.inputValue]])
         ELSE m
    ELSE IF e.type = "set-highlight-index"
    THEN IF isHighlighted(m)
         THEN Spread(m, [highlightIndex |-> e.highlightIndex])
         ELSE m
    ELSE IF e.type = "set-mode"
    THEN Spread(m, [selectMode |-> e.mode])
    ELSE m

(***************************************************************************)
(* updateModel, one operator per phase of the outer switch                 *)
(***************************************************************************)

\* the focused-selected-item case, the same in every phase that has it
FocusSelectedItem(m, e) ==
    Spread(m, [type |-> "selected-item-highlighted",
               focusedIndex |-> IndexById(m.selectedItems, e.item)])

\* the pressed-unselect-button case of the phases without chip focus
UnselectButton(m, e, phase) ==
    LET removed == RemoveById(m.selectedItems, e.item)
    IN  IF isNonEmpty(removed)
        THEN Spread(m, [selectedItems |-> removed])
        ELSE Spread(m, [type |-> phase])

updateModelBlurred(m, e) ==
    CASE e.type = "focused-input" ->
             resetInputValue(Spread(m, [type |-> "focused__opened",
                                        selectedItems |-> m.selectedItems]))
      [] e.type = "pressed-unselect-all-button" ->
             Spread(m, [type |-> "blurred"])
      [] e.type = "pressed-unselect-button" ->
             UnselectButton(m, e, "blurred")
      [] e.type = "focused-selected-item" -> FocusSelectedItem(m, e)
      [] OTHER -> m

updateModelFocusedClosed(m, e) ==
    CASE e.type = "pressed-input" -> Spread(m, [type |-> "focused__opened"])
      [] e.type = "blurred-input" -> Spread(m, [type |-> "blurred"])
      [] e.type = "inputted-value" ->
             IF m.inputMode.type = "select-only"
             THEN resetInputValue(Spread(m, [type |-> "focused__opened"]))
             ELSE IF e.inputValue = EmptyText
                     /\ m.selectMode.type = "single-select"
             THEN setInputValue(Spread(m, [type |-> "focused__opened"]),
                                e.inputValue)
             ELSE setInputValue(Spread(m, [type |-> "focused__opened"]),
                                e.inputValue)
      [] e.type = "pressed-enter-key" ->
             resetInputValue(Spread(m, [type |-> "focused__opened"]))
      [] e.type = "pressed-vertical-arrow-key" ->
             IF m.selectMode.type = "single-select"
             THEN resetInputValue(Spread(m, [type |-> "focused__opened"]))
             ELSE LET selectedItemIndex == toSelectedItemIndex(m)
                  IN  resetInputValue(
                          Spread(m, [highlightIndex |->
                                         IndexOrZero(selectedItemIndex),
                                     type |-> "focused__opened__highlighted"]))
      [] e.type = "pressed-horizontal-arrow-key" ->
             updateKeyboardNavigationForSelections(m, e)
      [] e.type = "pressed-unselect-button" ->
             UnselectButton(m, e, "focused__closed")
      [] e.type = "focused-selected-item" -> FocusSelectedItem(m, e)
      [] e.type = "pressed-backspace-key" ->
             IF m.inputMode.type = "select-only"
                /\ m.selectMode.type = "single-select"
             THEN Spread(m, [type |-> "focused__opened",
                             selectedItems |-> <<>>])
             ELSE IF m.inputMode.type = "search-mode"
                     /\ m.inputMode.inputValue = EmptyText
             THEN LET removed == Slice1(m.selectedItems)
                  IN  IF isNonEmpty(removed)
                      THEN Spread(m, [selectedItems |-> removed])
                      ELSE Spread(m, [type |-> "focused__opened"])
             ELSE m
      [] e.type = "pressed-unselect-all-button" ->
             Spread(m, [type |-> "focused__closed"])
      [] OTHER -> m

updateModelFocusedOpened(m, e) ==
    CASE e.type = "hovered-over-item" ->
             Spread(m, [type |-> "focused__opened__highlighted",
                        highlightIndex |-> e.index])
      [] e.type = "blurred-input" ->
             Spread(m, [type |-> "blurred",
                        selectedItems |-> m.selectedItems])
      [] e.type = "pressed-input" -> Spread(m, [type |-> "focused__closed"])
      [] e.type = "pressed-item" ->
             IF isEmptyItem(e.item)
             THEN Spread(m, [type |-> "focused__closed"])
             ELSE toggleSelected(m, e.item)
      [] e.type = "inputted-value" ->
             IF m.inputMode.type = "select-only"
             THEN resetInputValue(Spread(m, [type |-> "focused__opened"]))
             ELSE IF e.inputValue = EmptyText
                     /\ m.selectMode.type = "single-select"
             THEN clearInputValue(Spread(m, [selectedItems |-> <<>>,
                                             type |-> "focused__opened"]))
             ELSE setInputValue(m, e.inputValue)
      [] e.type = "pressed-enter-key" ->
             resetInputValue(Spread(m, [type |-> "focused__closed"]))
      [] e.type = "pressed-vertical-arrow-key" ->
             LET visible == toVisibleItems(m)
                 selectedIndex ==
                     FindIndex(visible,
                               [item \in Elems(visible) |->
                                    isItemSelected(m, item)])
                 delta == IF e.key = "arrow-down" THEN 1 ELSE -1
             IN  IF selectedIndex = -1
                 THEN Spread(m, [highlightIndex |-> 0,
                                 type |-> "focused__opened__highlighted"])
                 ELSE Spread(m, [highlightIndex |->
                                     circularIndex(selectedIndex + delta,
                                                   Len(visible)),
                                 type |-> "focused__opened__highlighted"])
      [] e.type = "pressed-escape-key" ->
             Spread(m, [type |-> "focused__closed"])
      [] e.type = "pressed-horizontal-arrow-key" ->
             updateKeyboardNavigationForSelections(m, e)
      [] e.type = "pressed-unselect-button" ->
             UnselectButton(m, e, "focused__opened")
      [] e.type = "pressed-backspace-key" ->
             IF m.inputMode.type = "select-only"
                /\ m.selectMode.type = "single-select"
             THEN Spread(m, [selectedItems |-> <<>>])
             ELSE IF toSearchValue(m) = EmptyText
             THEN Spread(m, [selectedItems |-> Slice1(m.selectedItems)])
             ELSE m
      [] e.type = "pressed-unselect-all-button" ->
             Spread(m, [type |-> "focused__opened"])
      [] OTHER -> m

updateModelFocusedOpenedHighlighted(m, e) ==
    CASE e.type = "hovered-over-item" ->
             Spread(m, [highlightIndex |-> e.index])
      [] e.type = "blurred-input" -> Spread(m, [type |-> "blurred"])
      [] e.type = "pressed-item" ->
             LET pressedItem == e.item
                 removed == RemoveById(m.selectedItems, pressedItem)
             IN  IF isEmptyItem(pressedItem)
                 THEN Spread(m, [type |-> "focused__closed"])
                 ELSE IF m.selectMode.type = "single-select"
                 THEN resetInputValue(
                          Spread(m, [type |-> "focused__closed",
                                     selectedItems |->
                                         addSelected(m.selectMode, pressedItem,
                                                     m.selectedItems)]))
                 ELSE IF ~isItemSelected(m, pressedItem)
                 THEN resetInputValue(
                          Spread(m, [type |-> "focused__closed",
                                     selectedItems |->
                                         addSelected(m.selectMode, pressedItem,
                                                     m.selectedItems)]))
                 ELSE IF isNonEmpty(removed)
                 THEN Spread(m, [type |-> "focused__closed",
                                 selectedItems |-> removed])
                 ELSE Spread(m, [type |-> "focused__closed"])
      [] e.type = "inputted-value" ->
             IF m.inputMode.type = "select-only"
             THEN resetInputValue(Spread(m, [type |-> "focused__opened"]))
             ELSE IF e.inputValue = EmptyText
                     /\ m.selectMode.type = "single-select"
             THEN clearInputValue(Spread(m, [selectedItems |-> <<>>,
                                             type |-> "focused__opened"]))
             ELSE setInputValue(m, e.inputValue)
      [] e.type = "pressed-vertical-arrow-key" ->
             LET visible == toVisibleItems(m)
                 delta == IF e.key = "arrow-down" THEN 1 ELSE -1
                 highlightIndex ==
                     circularIndex(m.highlightIndex + delta, Len(visible))
             IN  Spread(m, [highlightIndex |-> highlightIndex])
      [] e.type = "pressed-horizontal-arrow-key" ->
             updateKeyboardNavigationForSelections(m, e)
      [] e.type = "pressed-enter-key" ->
             LET visible == toVisibleItems(m)
                 enteredItem == At(visible, m.highlightIndex)
                 removed == RemoveById(m.selectedItems, enteredItem)
             IN  IF enteredItem = Null
                 THEN Spread(m, [type |-> "focused__closed"])
                 ELSE IF isEmptyItem(enteredItem)
                 THEN Spread(m, [type |-> "focused__closed"])
                 ELSE IF m.selectMode.type = "single-select"
                 THEN resetInputValue(
                          Spread(m, [selectedItems |->
                                         addSelected(m.selectMode, enteredItem,
                                                     m.selectedItems),
                                     type |-> "focused__closed"]))
                 ELSE IF ~isItemSelected(m, enteredItem)
                 THEN clearInputValue(
                          Spread(m, [selectedItems |->
                                         addSelected(m.selectMode, enteredItem,
                                                     m.selectedItems),
                                     type |-> "focused__closed"]))
                 ELSE IF isNonEmpty(removed)
                 THEN clearInputValue(
                          Spread(m, [selectedItems |-> removed,
                                     type |-> "focused__closed"]))
                 ELSE clearInputValue(Spread(m, [type |-> "focused__closed"]))
      [] e.type = "pressed-escape-key" ->
             Spread(m, [type |-> "focused__closed"])
      [] e.type = "pressed-unselect-button" ->
             UnselectButton(m, e, "focused__opened__highlighted")
      [] e.type = "focused-selected-item" -> FocusSelectedItem(m, e)
      [] e.type = "pressed-backspace-key" ->
             IF toSearchValue(m) = EmptyText
             THEN LET removed == Slice1(m.selectedItems)
                  IN  IF isNonEmpty(removed)
                      THEN Spread(m, [selectedItems |-> removed])
                      ELSE Spread(m, [type |-> "focused__opened"])
             ELSE m
      [] e.type = "pressed-unselect-all-button" ->
             Spread(m, [type |-> "focused__opened"])
      [] OTHER -> m

updateModelSelectedItemHighlighted(m, e) ==
    CASE e.type = "pressed-horizontal-arrow-key" ->
             IF m.selectMode.type # "multi-select"
             THEN clearInputValue(Spread(m, [type |-> "focused__closed"]))
             ELSE IF m.focusedIndex = 0
                     /\ m.selectMode.selectedItemListDirection
                            = "right-to-left"
                     /\ e.key = "arrow-right"
             THEN clearInputValue(Spread(m, [type |-> "focused__closed"]))
             ELSE IF m.focusedIndex = 0
                     /\ m.selectMode.selectedItemListDirection
                            = "left-to-right"
                     /\ e.key = "arrow-left"
             THEN clearInputValue(Spread(m, [type |-> "focused__closed"]))
             ELSE LET dir == m.selectMode.selectedItemListDirection
                      delta ==
                          IF dir = "right-to-left"
                          THEN (IF e.key = "arrow-right" THEN -1 ELSE 1)
                          ELSE IF dir = "left-to-right"
                          THEN (IF e.key = "arrow-left" THEN -1 ELSE 1)
                          ELSE 0
                  IN  Spread(m, [focusedIndex |->
                                     clampIndex(m.focusedIndex + delta,
                                                Len(m.selectedItems))])
      [] e.type = "pressed-vertical-arrow-key" ->
             IF m.selectMode.type = "single-select"
             THEN resetInputValue(Spread(m, [type |-> "focused__opened"]))
             ELSE LET selectedItemIndex == toSelectedItemIndex(m)
                  IN  resetInputValue(
                          Spread(m, [highlightIndex |->
                                         IndexOrZero(selectedItemIndex),
                                     type |-> "focused__opened__highlighted"]))
      [] e.type = "inputted-value" ->
             IF m.inputMode.type = "select-only"
             THEN setInputValue(Spread(m, [type |-> "focused__opened"]),
                                modelToInputValue(m))
             ELSE IF toSearchValue(m) = EmptyText
             THEN setInputValue(Spread(m, [selectedItems |-> <<>>,
                                           type |-> "focused__opened"]),
                                e.inputValue)
             ELSE setInputValue(Spread(m, [type |-> "focused__opened"]),
                                e.inputValue)
      [] e.type \in {"pressed-key", "pressed-enter-key",
                     "pressed-escape-key"} ->
             clearInputValue(Spread(m, [type |-> "focused__closed"]))
      [] e.type = "pressed-backspace-key" ->
             LET removedHighlightedIndex ==
                     RemoveAt(m.selectedItems, m.focusedIndex)
             IN  clearInputValue(
                     Spread(m, [selectedItems |-> removedHighlightedIndex,
                                type |-> "focused__closed"]))
      [] e.type = "pressed-unselect-button" ->
             LET removed == RemoveById(m.selectedItems, e.item)
             IN  IF isNonEmpty(removed)
                 THEN Spread(m, [selectedItems |-> removed,
                                 focusedIndex |->
                                     clampIndex(m.focusedIndex, Len(removed))])
                 ELSE clearInputValue(
                          Spread(m, [type |-> "focused__closed"]))
      [] e.type = "focused-selected-item" -> FocusSelectedItem(m, e)
      [] e.type = "blurred-selected-item" -> m
      [] e.type = "focused-input" ->
             clearInputValue(Spread(m, [type |-> "focused__opened"]))
      [] e.type = "pressed-unselect-all-button" ->
             clearInputValue(Spread(m, [type |-> "focused__opened"]))
      [] OTHER -> m

\* updateModel with the focused__closed phase using the transition table of
\* focused__opened
updateModelClosedAsOpened(m, e) ==
    CASE m.type = "blurred" -> updateModelBlurred(m, e)
      [] m.type = "focused__closed" -> updateModelFocusedOpened(m, e)
      [] m.type = "focused__opened" -> updateModelFocusedOpened(m, e)
      [] m.type = "focused__opened__highlighted" ->
             updateModelFocusedOpenedHighlighted(m, e)
      [] m.type = "selected-item-highlighted" ->
             updateModelSelectedItemHighlighted(m, e)

updateModel(m, e) ==
    CASE m.type = "blurred" -> updateModelBlurred(m, e)
      [] m.type = "focused__closed" -> updateModelFocusedClosed(m, e)
      [] m.type = "focused__opened" -> updateModelFocusedOpened(m, e)
      [] m.type = "focused__opened__highlighted" ->
             updateModelFocusedOpenedHighlighted(m, e)
      [] m.type = "selected-item-highlighted" ->
             updateModelSelectedItemHighlighted(m, e)

(***************************************************************************)
(* update                                                                  *)
(***************************************************************************)

HoveredOverItem == "hovered-over-item"

PressedInput == "pressed-input"

\* arr.includes(x) looking at the first entry only
IncludesFirst(arr, x) == Len(arr) > 0 /\ arr[1] = x

\* arr.includes(x) on skipOnce
Includes(arr, x) == \E i \in 1 .. Len(arr) : arr[i] = x

\* effects.some((effect) => effect.type === "scroll-item-into-view")
HasScroll(effs) ==
    \E i \in 1 .. Len(effs) : effs[i].type = "scroll-item-into-view"

\* SkipStep with every occurrence of the type removed instead of the first
SkipStepAll(m, e) ==
    [model |-> Spread(m, [skipOnce |->
                              Filter(m.skipOnce,
                                     [t \in Elems(m.skipOnce) |->
                                          t # e.type])]),
     effects |-> <<>>]

\* the skip step at the head of update
SkipStep(m, e) ==
    [model |-> Spread(m, [skipOnce |->
                              removeFirst([t \in Elems(m.skipOnce) |->
                                               t = e.type],
                                          m.skipOnce)]),
     effects |-> <<>>]

\* toEffects asking for the focus on a press only when the input is blurred
toEffectsFocusWhenBlurred(m, next, e) ==
    LET scrollSelected ==
            IF isClosed(m) /\ isOpened(next) /\ isSelected(next)
            THEN <<[type |-> "scroll-item-into-view",
                    item |-> next.selectedItems[1]]>>
            ELSE <<>>
        focusOnPress ==
            IF e.type = "pressed-input" /\ isBlurred(m)
            THEN <<[type |-> "focus-input"]>>
            ELSE <<>>
        highlightedItem ==
            IF isHighlighted(next) /\ e.type = "pressed-vertical-arrow-key"
            THEN At(toVisibleItems(next), next.highlightIndex)
            ELSE Null
        scrollHighlighted ==
            IF highlightedItem # Null
            THEN <<[type |-> "scroll-item-into-view",
                    item |-> highlightedItem]>>
            ELSE <<>>
        selectedHighlightedItem ==
            IF isSelectedItemHighlighted(next)
            THEN At(next.selectedItems, next.focusedIndex)
            ELSE Null
        focusSelected ==
            IF selectedHighlightedItem # Null
            THEN <<[type |-> "focus-selected-item",
                    item |-> selectedHighlightedItem]>>
            ELSE <<>>
        focusOnLeave ==
            IF isSelectedItemHighlighted(m) /\ ~isSelectedItemHighlighted(next)
            THEN <<[type |-> "focus-input"]>>
            ELSE <<>>
        focusOnClear ==
            IF e.type = "pressed-unselect-all-button"
            THEN <<[type |-> "focus-input"]>>
            ELSE <<>>
    IN  scrollSelected \o focusOnPress \o scrollHighlighted \o focusSelected
            \o focusOnLeave \o focusOnClear

\* toEffects scrolling to the selected item whenever the dropdown is open
toEffectsScrollWhileOpen(m, next, e) ==
    LET scrollSelected ==
            IF isOpened(next) /\ isSelected(next)
            THEN <<[type |-> "scroll-item-into-view",
                    item |-> next.selectedItems[1]]>>
            ELSE <<>>
        focusOnPress ==
            IF e.type = "pressed-input"
            THEN <<[type |-> "focus-input"]>>
            ELSE <<>>
        highlightedItem ==
            IF isHighlighted(next) /\ e.type = "pressed-vertical-arrow-key"
            THEN At(toVisibleItems(next), next.highlightIndex)
            ELSE Null
        scrollHighlighted ==
            IF highlightedItem # Null
            THEN <<[type |-> "scroll-item-into-view",
                    item |-> highlightedItem]>>
            ELSE <<>>
        selectedHighlightedItem ==
            IF isSelectedItemHighlighted(next)
            THEN At(next.selectedItems, next.focusedIndex)
            ELSE Null
        focusSelected ==
            IF selectedHighlightedItem # Null
            THEN <<[type |-> "focus-selected-item",
                    item |-> selectedHighlightedItem]>>
            ELSE <<>>
        focusOnLeave ==
            IF isSelectedItemHighlighted(m) /\ ~isSelectedItemHighlighted(next)
            THEN <<[type |-> "focus-input"]>>
            ELSE <<>>
        focusOnClear ==
            IF e.type = "pressed-unselect-all-button"
            THEN <<[type |-> "focus-input"]>>
            ELSE <<>>
    IN  scrollSelected \o focusOnPress \o scrollHighlighted \o focusSelected
            \o focusOnLeave \o focusOnClear

\* toEffects without the focus-input on leaving the chips
toEffectsNoFocusOnLeave(m, next, e) ==
    LET scrollSelected ==
            IF isClosed(m) /\ isOpened(next) /\ isSelected(next)
            THEN <<[type |-> "scroll-item-into-view",
                    item |-> next.selectedItems[1]]>>
            ELSE <<>>
        focusOnPress ==
            IF e.type = "pressed-input"
            THEN <<[type |-> "focus-input"]>>
            ELSE <<>>
        highlightedItem ==
            IF isHighlighted(next) /\ e.type = "pressed-vertical-arrow-key"
            THEN At(toVisibleItems(next), next.highlightIndex)
            ELSE Null
        scrollHighlighted ==
            IF highlightedItem # Null
            THEN <<[type |-> "scroll-item-into-view",
                    item |-> highlightedItem]>>
            ELSE <<>>
        selectedHighlightedItem ==
            IF isSelectedItemHighlighted(next)
            THEN At(next.selectedItems, next.focusedIndex)
            ELSE Null
        focusSelected ==
            IF selectedHighlightedItem # Null
            THEN <<[type |-> "focus-selected-item",
                    item |-> selectedHighlightedItem]>>
            ELSE <<>>
        focusOnLeave ==
            <<>>
        focusOnClear ==
            IF e.type = "pressed-unselect-all-button"
            THEN <<[type |-> "focus-input"]>>
            ELSE <<>>
    IN  scrollSelected \o focusOnPress \o scrollHighlighted \o focusSelected
            \o focusOnLeave \o focusOnClear

\* the effect list update builds from the input model, the updated model and
\* the message
toEffects(m, next, e) ==
    LET scrollSelected ==
            IF isClosed(m) /\ isOpened(next) /\ isSelected(next)
            THEN <<[type |-> "scroll-item-into-view",
                    item |-> next.selectedItems[1]]>>
            ELSE <<>>
        focusOnPress ==
            IF e.type = "pressed-input"
            THEN <<[type |-> "focus-input"]>>
            ELSE <<>>
        highlightedItem ==
            IF isHighlighted(next) /\ e.type = "pressed-vertical-arrow-key"
            THEN At(toVisibleItems(next), next.highlightIndex)
            ELSE Null
        scrollHighlighted ==
            IF highlightedItem # Null
            THEN <<[type |-> "scroll-item-into-view",
                    item |-> highlightedItem]>>
            ELSE <<>>
        selectedHighlightedItem ==
            IF isSelectedItemHighlighted(next)
            THEN At(next.selectedItems, next.focusedIndex)
            ELSE Null
        focusSelected ==
            IF selectedHighlightedItem # Null
            THEN <<[type |-> "focus-selected-item",
                    item |-> selectedHighlightedItem]>>
            ELSE <<>>
        focusOnLeave ==
            IF isSelectedItemHighlighted(m) /\ ~isSelectedItemHighlighted(next)
            THEN <<[type |-> "focus-input"]>>
            ELSE <<>>
        focusOnClear ==
            IF e.type = "pressed-unselect-all-button"
            THEN <<[type |-> "focus-input"]>>
            ELSE <<>>
    IN  scrollSelected \o focusOnPress \o scrollHighlighted \o focusSelected
            \o focusOnLeave \o focusOnClear

\* first rule: the list opened and an item is scrolled into view
skipHoverOnScrollOpen(m, next, effs) ==
    IF isClosed(m) /\ isOpened(next) /\ HasScroll(effs)
    THEN Spread(next, [skipOnce |-> <<HoveredOverItem, HoveredOverItem>>])
    ELSE next

\* second rule: the list opened
skipHoverOnOpen(m, next) ==
    IF isClosed(m) /\ isOpened(next)
    THEN Spread(next, [skipOnce |-> Append(next.skipOnce, HoveredOverItem)])
    ELSE next

\* third rule adding its entry to the pending ones instead of replacing them
skipHoverOnScrollAppending(next, effs) ==
    IF HasScroll(effs)
    THEN Spread(next, [skipOnce |-> Append(next.skipOnce, HoveredOverItem)])
    ELSE next

\* third rule: an item is scrolled into view
skipHoverOnScroll(next, effs) ==
    IF HasScroll(effs)
    THEN Spread(next, [skipOnce |-> <<HoveredOverItem>>])
    ELSE next

\* the fourth rule applied only when focus was gained from a selected item
skipPressOnFocusFromChips(m, next) ==
    IF m.type = "selected-item-highlighted" /\ isFocused(next)
    THEN Spread(next, [skipOnce |-> Append(next.skipOnce, PressedInput)])
    ELSE next

\* the fourth rule scheduling the suppression of the next focused-input
skipFocusOnFocus(m, next) ==
    IF (isBlurred(m) \/ m.type = "selected-item-highlighted")
       /\ isFocused(next)
    THEN Spread(next, [skipOnce |-> Append(next.skipOnce, "focused-input")])
    ELSE next

\* fourth rule: focus was gained from blurred or from a selected item
skipPressOnFocus(m, next) ==
    IF (isBlurred(m) \/ m.type = "selected-item-highlighted")
       /\ isFocused(next)
    THEN Spread(next, [skipOnce |-> Append(next.skipOnce, PressedInput)])
    ELSE next

\* scheduleSkips with the pressed-input rule applied whenever the returned
\* model is focused, whatever the phase before
scheduleSkipsWheneverFocused(m, next, effs) ==
    skipPressOnFocus(
        Spread(m, [type |-> "blurred"]),
        skipHoverOnScroll(
            skipHoverOnOpen(m, skipHoverOnScrollOpen(m, next, effs)), effs))

\* the four suppression rules, applied in the order of the source
scheduleSkips(m, next, effs) ==
    skipPressOnFocus(
        m,
        skipHoverOnScroll(
            skipHoverOnOpen(m, skipHoverOnScrollOpen(m, next, effs)), effs))

\* update from the suppression rules to the return of output
withSkips(m, next, effs) ==
    [model |-> scheduleSkips(m, next, effs), effects |-> effs]

\* update from "Add Effects" on, output.model being next
withEffects(m, next, e) == withSkips(m, next, toEffects(m, next, e))

update(m, e) ==
    IF Includes(m.skipOnce, e.type)
    THEN SkipStep(m, e)
    ELSE withEffects(m, updateSetters(updateModel(m, e), e), e)

(***************************************************************************)
(* init                                                                    *)
(***************************************************************************)

SingleSelect == [type |-> "single-select"]

MultiSelect(direction) ==
    [type |-> "multi-select", selectedItemListDirection |-> direction]

SelectModes ==
    {SingleSelect, MultiSelect("left-to-right"), MultiSelect("right-to-left")}

SelectOnly == [type |-> "select-only"]

SearchMode(inputValue) == [type |-> "search-mode", inputValue |-> inputValue]

\* init with both optional arguments given; init's defaults are
\* SingleSelect and SearchMode(EmptyText)
init(allItems, selectMode, inputMode) ==
    [type |-> "blurred",
     selectedItems |-> <<>>,
     allItems |-> allItems,
     skipOnce |-> <<>>,
     inputMode |-> inputMode,
     selectMode |-> selectMode]

(***************************************************************************)
(* The event alphabet: the Msg values the host dispatches                  *)
(***************************************************************************)

\* the list a caller passes to init: the sentinel first, ItemC not offered
DefaultItems == <<ItemNone, ItemA, ItemB>>

\* lists a caller passes to set-all-items
ItemLists == {DefaultItems, <<>>}

\* lists a caller passes to set-selected-items
Selections == {<<>>, <<ItemB>>, <<ItemA, ItemB, ItemC>>}

\* texts the user types or a caller sets
Texts == {EmptyText, <<"a">>}

\* list positions a pointer event or set-highlight-index carries
Indices == {0, 1}

MsgsOf(type) ==
    CASE type = "pressed-horizontal-arrow-key" ->
             {[type |-> type, key |-> k] : k \in {"arrow-left", "arrow-right"}}
      [] type = "pressed-vertical-arrow-key" ->
             {[type |-> type, key |-> k] : k \in {"arrow-up", "arrow-down"}}
      [] type = "pressed-key" -> {[type |-> type, key |-> "x"]}
      [] type = "pressed-item" -> {[type |-> type, item |-> i] : i \in Items}
      [] type \in {"pressed-unselect-button", "focused-selected-item",
                   "blurred-selected-item"} ->
             {[type |-> type, item |-> i] : i \in Items \ {ItemNone}}
      [] type \in {"inputted-value", "set-input-value"} ->
             {[type |-> type, inputValue |-> t] : t \in Texts}
      [] type = "hovered-over-item" ->
             {[type |-> type, index |-> i] : i \in Indices}
      [] type = "set-all-items" ->
             {[type |-> type, allItems |-> l] : l \in ItemLists}
      [] type = "set-selected-items" ->
             {[type |-> type, selectedItems |-> l] : l \in Selections}
      [] type = "set-highlight-index" ->
             {[type |-> type, highlightIndex |-> i] : i \in Indices}
      [] type = "set-mode" -> {[type |-> type, mode |-> m] : m \in SelectModes}
      [] OTHER -> {[type |-> type]}

KeyTypes ==
    {"pressed-horizontal-arrow-key", "pressed-vertical-arrow-key",
     "pressed-backspace-key", "pressed-escape-key", "pressed-enter-key",
     "pressed-key"}

PointerTypes ==
    {"pressed-item", "hovered-over-item", "pressed-input",
     "pressed-unselect-all-button", "pressed-unselect-button"}

FocusTypes ==
    {"focused-input", "blurred-input", "inputted-value",
     "focused-selected-item", "blurred-selected-item"}

SetterTypes ==
    {"set-all-items", "set-selected-items", "set-input-value",
     "set-highlight-index", "set-mode"}

MsgTypes == KeyTypes \cup PointerTypes \cup FocusTypes \cup SetterTypes

Msgs == UNION {MsgsOf(t) : t \in MsgTypes}

(***************************************************************************)
(* The state machine: the caller threads its model through update          *)
(***************************************************************************)

Init ==
    \E selectMode \in SelectModes,
       inputMode \in {SearchMode(EmptyText), SelectOnly} :
        model = init(DefaultItems, selectMode, inputMode)

\* the exploration follows update's result out while skipOnce stays within
\* MaxSkip
Accepted(out) == Len(out.model.skipOnce) <= MaxSkip

\* Each action is one call update(config, {model, msg}) for one Msg type; the
\* caller replaces its model by the returned one.

PressedHorizontalArrowKey ==
    \E e \in MsgsOf("pressed-horizontal-arrow-key") :
        \E out \in {update(model, e)} :
            /\ Accepted(out)
            /\ model' = out.model

PressedVerticalArrowKey ==
    \E e \in MsgsOf("pressed-vertical-arrow-key") :
        \E out \in {update(model, e)} :
            /\ Accepted(out)
            /\ model' = out.model

PressedBackspaceKey ==
    \E e \in MsgsOf("pressed-backspace-key") :
        \E out \in {update(model, e)} :
            /\ Accepted(out)
            /\ model' = out.model

PressedEscapeKey ==
    \E e \in MsgsOf("pressed-escape-key") :
        \E out \in {update(model, e)} :
            /\ Accepted(out)
            /\ model' = out.model

PressedEnterKey ==
    \E e \in MsgsOf("pressed-enter-key") :
        \E out \in {update(model, e)} :
            /\ Accepted(out)
            /\ model' = out.model

PressedKey ==
    \E e \in MsgsOf("pressed-key") :
        \E out \in {update(model, e)} :
            /\ Accepted(out)
            /\ model' = out.model

PressedItem ==
    \E e \in MsgsOf("pressed-item") :
        \E out \in {update(model, e)} :
            /\ Accepted(out)
            /\ model' = out.model

FocusedInput ==
    \E e \in MsgsOf("focused-input") :
        \E out \in {update(model, e)} :
            /\ Accepted(out)
            /\ model' = out.model

BlurredInput ==
    \E e \in MsgsOf("blurred-input") :
        \E out \in {update(model, e)} :
            /\ Accepted(out)
            /\ model' = out.model

InputtedValue ==
    \E e \in MsgsOf("inputted-value") :
        \E out \in {update(model, e)} :
            /\ Accepted(out)
            /\ model' = out.model

HoveredOver ==
    \E e \in MsgsOf("hovered-over-item") :
        \E out \in {update(model, e)} :
            /\ Accepted(out)
            /\ model' = out.model

PressedInputBox ==
    \E e \in MsgsOf("pressed-input") :
        \E out \in {update(model, e)} :
            /\ Accepted(out)
            /\ model' = out.model

PressedUnselectAllButton ==
    \E e \in MsgsOf("pressed-unselect-all-button") :
        \E out \in {update(model, e)} :
            /\ Accepted(out)
            /\ model' = out.model

PressedUnselectButton ==
    \E e \in MsgsOf("pressed-unselect-button") :
        \E out \in {update(model, e)} :
            /\ Accepted(out)
            /\ model' = out.model

FocusedSelectedItem ==
    \E e \in MsgsOf("focused-selected-item") :
        \E out \in {update(model, e)} :
            /\ Accepted(out)
            /\ model' = out.model

BlurredSelectedItem ==
    \E e \in MsgsOf("blurred-selected-item") :
        \E out \in {update(model, e)} :
            /\ Accepted(out)
            /\ model' = out.model

SetAllItems ==
    \E e \in MsgsOf("set-all-items") :
        \E out \in {update(model, e)} :
            /\ Accepted(out)
            /\ model' = out.model

SetSelectedItems ==
    \E e \in MsgsOf("set-selected-items") :
        \E out \in {update(model, e)} :
            /\ Accepted(out)
            /\ model' = out.model

SetInputValue ==
    \E e \in MsgsOf("set-input-value") :
        \E out \in {update(model, e)} :
            /\ Accepted(out)
            /\ model' = out.model

SetHighlightIndex ==
    \E e \in MsgsOf("set-highlight-index") :
        \E out \in {update(model, e)} :
            /\ Accepted(out)
            /\ model' = out.model

SetMode ==
    \E e \in MsgsOf("set-mode") :
        \E out \in {update(model, e)} :
            /\ Accepted(out)
            /\ model' = out.model

Next ==
    \/ PressedHorizontalArrowKey
    \/ PressedVerticalArrowKey
    \/ PressedBackspaceKey
    \/ PressedEscapeKey
    \/ PressedEnterKey
    \/ PressedKey
    \/ PressedItem
    \/ FocusedInput
    \/ BlurredInput
    \/ InputtedValue
    \/ HoveredOver
    \/ PressedInputBox
    \/ PressedUnselectAllButton
    \/ PressedUnselectButton
    \/ FocusedSelectedItem
    \/ BlurredSelectedItem
    \/ SetAllItems
    \/ SetSelectedItems
    \/ SetInputValue
    \/ SetHighlightIndex
    \/ SetMode

Spec == Init /\ [][Next]_vars

(***************************************************************************)
(* Vocabulary of the properties                                            *)
(***************************************************************************)

\* update discards e in model m: its type is in m.skipOnce
Swallowed(m, e) == Includes(m.skipOnce, e.type)

\* a and b have the same properties and differ at most in skipOnce
SameExceptSkipOnce(a, b) ==
    /\ DOMAIN a = DOMAIN b
    /\ \A f \in DOMAIN a \ {"skipOnce"} : a[f] = b[f]

\* after is before without its first occurrence of t
FirstOccurrenceRemoved(before, after, t) ==
    \E i \in 1 .. Len(before) :
        /\ before[i] = t
        /\ \A j \in 1 .. (i - 1) : before[j] # t
        /\ Len(after) = Len(before) - 1
        /\ \A k \in 1 .. Len(after) :
               after[k] = IF k < i THEN before[k] ELSE before[k + 1]

\* the ids of a list of items
Ids(items) == {toItemId(items[i]) : i \in 1 .. Len(items)}

\* no two entries of the list have the same id
NoDuplicateIds(items) ==
    \A i, j \in 1 .. Len(items) :
        toItemId(items[i]) = toItemId(items[j]) => i = j

PressInput == [type |-> "pressed-input"]

PressItem(item) == [type |-> "pressed-item", item |-> item]

HoverOver(index) == [type |-> "hovered-over-item", index |-> index]

InSearchMode(m) == m.inputMode.type = "search-mode"

IsSingleSelect(m) == m.selectMode.type = "single-select"

IsMultiSelect(m) == m.selectMode.type = "multi-select"

(***************************************************************************)
(* C1                                                                      *)
(***************************************************************************)

\* C1: in every reachable model, whatever events led to it (set-selected-items
\* and set-mode included), single-select implies at most one selected item.
C1_SingleSelectCardinality ==
    IsSingleSelect(model) => Len(model.selectedItems) <= 1

(***************************************************************************)
(* C2                                                                      *)
(***************************************************************************)

\* what the skip step must return for message e in model m
SkipFrame(m, e) ==
    LET out == update(m, e)
    IN  /\ out.effects = <<>>
        /\ SameExceptSkipOnce(m, out.model)
        /\ FirstOccurrenceRemoved(m.skipOnce, out.model.skipOnce, e.type)

\* model m with one more pending suppression, of type t
WithPending(m, t) == Spread(m, [skipOnce |-> Append(m.skipOnce, t)])

\* C2: when msg.type occurs in model.skipOnce, update returns no effects and
\* the input model with exactly the first occurrence of msg.type removed from
\* skipOnce and every other field unchanged.  Checked for every reachable
\* model and, for every event type (setters included), for every reachable
\* model to which a suppression of that type has been added.
C2_SkipStepFrame ==
    \A e \in Msgs :
        /\ Swallowed(model, e) => SkipFrame(model, e)
        /\ SkipFrame(WithPending(model, e.type), e)

\* two hover suppressions are pending on an open dropdown and a hover
\* consumes exactly one of them
C2_Witness ==
    /\ model.skipOnce = <<HoveredOverItem, PressedInput, HoveredOverItem>>
           \/ model.skipOnce = <<HoveredOverItem, HoveredOverItem>>
    /\ isOpened(model)
    /\ update(model, HoverOver(1)).model.skipOnce = Tail(model.skipOnce)
    /\ update(model, HoverOver(1)).model.type = model.type

(***************************************************************************)
(* C3                                                                      *)
(***************************************************************************)

\* C3: in focused__opened with nothing selected (single-select, search-mode,
\* pressed-item not suppressed), pressed-item(B) for a non-empty item B gives
\* phase focused__closed, selectedItems = [B] and the input text of B.
C3_PressedItemSelects ==
    \A item \in Items :
        (/\ model.type = "focused__opened"
         /\ ~isSelected(model)
         /\ IsSingleSelect(model)
         /\ InSearchMode(model)
         /\ ~isEmptyItem(item)
         /\ ~Swallowed(model, PressItem(item)))
        => LET out == update(model, PressItem(item))
           IN  /\ out.model.type = "focused__closed"
               /\ out.model.selectedItems = <<item>>
               /\ toCurrentInputValue(out.model) = toItemInputValue(item)

(***************************************************************************)
(* C4                                                                      *)
(***************************************************************************)

RECURSIVE PressInputUntilOpened(_, _)
\* reopen the dropdown by pressing the input; a press that a pending
\* suppression swallows is repeated, at most n times
PressInputUntilOpened(m, n) ==
    IF isOpened(m) \/ n = 0 THEN m
    ELSE PressInputUntilOpened(update(m, PressInput).model, n - 1)

\* pressed-item(x), dropdown reopened, pressed-item(x) again
PressedTwice(m, item) ==
    LET once == update(m, PressItem(item)).model
        reopened == PressInputUntilOpened(once, MaxSkip + 2)
    IN  update(reopened, PressItem(item)).model

\* C4: in multi-select, with the dropdown open, pressing item x, reopening
\* the dropdown and pressing x again gives back the membership (by id) of the
\* selection before the first press, without duplicate ids.
C4_ToggleSymmetry ==
    \A item \in Items :
        (/\ IsMultiSelect(model)
         /\ isOpened(model)
         /\ NoDuplicateIds(model.selectedItems)
         /\ ~Swallowed(model, PressItem(item)))
        => LET twice == PressedTwice(model, item)
           IN  /\ isOpened(PressInputUntilOpened(
                               update(model, PressItem(item)).model,
                               MaxSkip + 2))
               => /\ Ids(twice.selectedItems) = Ids(model.selectedItems)
                  /\ NoDuplicateIds(twice.selectedItems)

(***************************************************************************)
(* C5                                                                      *)
(***************************************************************************)

UnselectAll == [type |-> "pressed-unselect-all-button"]

\* C5: a pressed-unselect-all-button that is not swallowed empties
\* selectedItems in every phase and leaves a closed phase: blurred stays
\* blurred, every focused phase becomes focused__closed.
C5_UnselectAllClears ==
    ~Swallowed(model, UnselectAll)
    => LET out == update(model, UnselectAll)
       IN  /\ out.model.selectedItems = <<>>
           /\ out.model.type =
                  IF model.type = "blurred" THEN "blurred"
                  ELSE "focused__closed"

(***************************************************************************)
(* C6                                                                      *)
(***************************************************************************)

Backspace == [type |-> "pressed-backspace-key"]

\* C6: in focused__closed, focused__opened and focused__opened__highlighted,
\* in search-mode, a pressed-backspace-key that is not swallowed removes the
\* first selected item and keeps the rest in order when inputValue is "" (a
\* selection of one item becomes empty), and changes nothing when inputValue
\* is not "".
C6_BackspaceRemovesFirst ==
    (/\ model.type \in {"focused__closed", "focused__opened",
                        "focused__opened__highlighted"}
     /\ InSearchMode(model)
     /\ ~Swallowed(model, Backspace))
    => LET out == update(model, Backspace)
       IN  IF model.inputMode.inputValue = EmptyText
           THEN out.model.selectedItems =
                    SubSeq(model.selectedItems, 2, Len(model.selectedItems))
           ELSE out.model = model

(***************************************************************************)
(* C7                                                                      *)
(***************************************************************************)

InputEmpty == [type |-> "inputted-value", inputValue |-> EmptyText]

\* C7: in single-select search-mode with an item selected, an
\* inputted-value("") that is not swallowed, in focused__closed,
\* focused__opened or focused__opened__highlighted, gives selectedItems = [],
\* phase focused__opened and inputValue "".
C7_EmptyInputDeselects ==
    (/\ model.type \in {"focused__closed", "focused__opened",
                        "focused__opened__highlighted"}
     /\ IsSingleSelect(model)
     /\ InSearchMode(model)
     /\ isSelected(model)
     /\ ~Swallowed(model, InputEmpty))
    => LET out == update(model, InputEmpty)
       IN  /\ out.model.selectedItems = <<>>
           /\ out.model.type = "focused__opened"
           /\ out.model.inputMode.inputValue = EmptyText

(***************************************************************************)
(* C8                                                                      *)
(***************************************************************************)

\* the list does not contain the item that toSelectedItem returns for m
SelectedItemAbsent(m, allItems) ==
    /\ isSelected(m)
    /\ toItemId(toSelectedItem(m)) \notin Ids(allItems)

HandledTypes(phase) ==
    CASE phase = "blurred" ->
             {"focused-input", "pressed-unselect-all-button",
              "pressed-unselect-button", "focused-selected-item"}
      [] phase = "focused__closed" ->
             {"pressed-input", "blurred-input", "inputted-value",
              "pressed-enter-key", "pressed-vertical-arrow-key",
              "pressed-horizontal-arrow-key", "pressed-unselect-button",
              "focused-selected-item", "pressed-backspace-key",
              "pressed-unselect-all-button"}
      [] phase = "focused__opened" ->
             {"hovered-over-item", "blurred-input", "pressed-input",
              "pressed-item", "inputted-value", "pressed-enter-key",
              "pressed-vertical-arrow-key", "pressed-escape-key",
              "pressed-horizontal-arrow-key", "pressed-unselect-button",
              "pressed-backspace-key", "pressed-unselect-all-button"}
      [] phase = "focused__opened__highlighted" ->
             {"hovered-over-item", "blurred-input", "pressed-item",
              "inputted-value", "pressed-vertical-arrow-key",
              "pressed-horizontal-arrow-key", "pressed-enter-key",
              "pressed-escape-key", "pressed-unselect-button",
              "focused-selected-item", "pressed-backspace-key",
              "pressed-unselect-all-button"}
      [] phase = "selected-item-highlighted" ->
             {"pressed-horizontal-arrow-key", "pressed-vertical-arrow-key",
              "inputted-value", "pressed-key", "pressed-enter-key",
              "pressed-escape-key", "pressed-backspace-key",
              "pressed-unselect-button", "focused-selected-item",
              "focused-input", "pressed-unselect-all-button"}

\* e is not swallowed in m, is no setter, and m's phase has no case for it
Unhandled(m, e) ==
    /\ ~Swallowed(m, e)
    /\ e.type \notin SetterTypes
    /\ e.type \notin HandledTypes(m.type)

SchedulesHoverSkip(m, e) ==
    /\ ~Swallowed(m, e)
    /\ LET out == update(m, e)
       IN  \/ isClosed(m) /\ isOpened(out.model)
           \/ HasScroll(out.effects)

\* C10: after an update that schedules a hovered-over-item suppression, the
\* next hovered-over-item is swallowed (no effects, model unchanged apart
\* from skipOnce) and the one after it, the dropdown still open, is applied:
\* phase focused__opened__highlighted with its index as highlightIndex.
C10_OneHoverSwallowed ==
    \A e \in Msgs :
        SchedulesHoverSkip(model, e)
        => \A i, j \in Indices :
               LET scheduled == update(model, e).model
                   first == update(scheduled, HoverOver(i))
                   second == update(first.model, HoverOver(j))
               IN  /\ first.effects = <<>>
                   /\ SameExceptSkipOnce(scheduled, first.model)
                   /\ isOpened(first.model)
                      => /\ second.model.type = "focused__opened__highlighted"
                         /\ second.model.highlightIndex = j

(***************************************************************************)
(* C11                                                                     *)
(***************************************************************************)

\* the phase a press on the focused input toggles to
Toggled(phase) ==
    IF phase = "focused__closed" THEN "focused__opened" ELSE "focused__closed"

\* a pressed-input suppression is pending in m
PressPending(m) ==
    \E i \in 1 .. Len(m.skipOnce) : m.skipOnce[i] = PressedInput

BlurInput == [type |-> "blurred-input"]

\* C12: a blurred-input that is not swallowed, in focused__closed,
\* focused__opened, focused__opened__highlighted or selected-item-highlighted,
\* gives phase blurred with selectedItems unchanged.
C12_BlurInputBlurs ==
    (isFocused(model) /\ ~Swallowed(model, BlurInput))
    => LET out == update(model, BlurInput)
       IN  /\ out.model.type = "blurred"
           /\ out.model.selectedItems = model.selectedItems

(***************************************************************************)
(* A host that dispatches only indices and chips that exist                *)
(***************************************************************************)

\* index is a position of the visible list of m
ValidVisibleIndex(m, index) == index \in 0 .. (Len(toVisibleItems(m)) - 1)

\* hovered-over-item carrying an index of the list on screen
HoveredOverVisible ==
    \E e \in MsgsOf("hovered-over-item") :
        /\ ValidVisibleIndex(model, e.index)
        /\ \E out \in {update(model, e)} :
               /\ Accepted(out)
               /\ model' = out.model

\* set-highlight-index carrying an index of the list on screen
SetHighlightIndexVisible ==
    \E e \in MsgsOf("set-highlight-index") :
        /\ ValidVisibleIndex(model, e.highlightIndex)
        /\ \E out \in {update(model, e)} :
               /\ Accepted(out)
               /\ model' = out.model

\* focused-selected-item naming an item that is selected
FocusedSelectedItemSelected ==
    \E e \in MsgsOf("focused-selected-item") :
        /\ isItemSelected(model, e.item)
        /\ \E out \in {update(model, e)} :
               /\ Accepted(out)
               /\ model' = out.model

NextFromHost ==
    \/ PressedHorizontalArrowKey
    \/ PressedVerticalArrowKey
    \/ PressedBackspaceKey
    \/ PressedEscapeKey
    \/ PressedEnterKey
    \/ PressedKey
    \/ PressedItem
    \/ FocusedInput
    \/ BlurredInput
    \/ InputtedValue
    \/ HoveredOverVisible
    \/ PressedInputBox
    \/ PressedUnselectAllButton
    \/ PressedUnselectButton
    \/ FocusedSelectedItemSelected
    \/ BlurredSelectedItem
    \/ SetAllItems
    \/ SetSelectedItems
    \/ SetInputValue
    \/ SetHighlightIndexVisible
    \/ SetMode

\* the behaviours in which pointer and chip events refer to what is displayed
SpecFromHost == Init /\ [][NextFromHost]_vars

(***************************************************************************)
(* C13                                                                     *)
(***************************************************************************)

\* C13: when hovered-over-item and set-highlight-index carry indices of the
\* visible list, every reachable model in focused__opened__highlighted has a
\* highlightIndex that is a position of toVisibleItems, also after
\* inputted-value or set-all-items made the visible list shorter.
C13_HighlightIndexVisible ==
    isHighlighted(model) => ValidVisibleIndex(model, model.highlightIndex)

(***************************************************************************)
(* C14                                                                     *)
(***************************************************************************)

\* C14: when focused-selected-item names a selected item, every reachable
\* model in selected-item-highlighted has a focusedIndex that is a position of
\* selectedItems (which is then non-empty), also after set-selected-items and
\* pressed-unselect-button.
C14_FocusedIndexSelected ==
    isSelectedItemHighlighted(model)
    => model.focusedIndex \in 0 .. (Len(model.selectedItems) - 1)

(***************************************************************************)
(* C15                                                                     *)
(***************************************************************************)

ArrowDown == [type |-> "pressed-vertical-arrow-key", key |-> "arrow-down"]

ArrowUp == [type |-> "pressed-vertical-arrow-key", key |-> "arrow-up"]

RECURSIVE ArrowDowns(_, _)
\* the model after k presses of arrow-down
ArrowDowns(m, k) ==
    IF k = 0 THEN m ELSE ArrowDowns(update(m, ArrowDown).model, k - 1)

\* C15: in focused__opened__highlighted with n visible items and
\* highlightIndex i in 0..n-1, arrow-down gives (i+1) mod n and arrow-up gives
\* (i-1+n) mod n; n arrow-downs from index 0 come back to index 0; with no
\* visible item the index becomes 0.  The phase stays highlighted.
C15_VerticalArrowCircular ==
    isHighlighted(model)
    => LET n == Len(toVisibleItems(model))
           i == model.highlightIndex
           down == update(model, ArrowDown).model
           up == update(model, ArrowUp).model
       IN  /\ isHighlighted(down) /\ isHighlighted(up)
           /\ n = 0 => down.highlightIndex = 0 /\ up.highlightIndex = 0
           /\ (n >= 1 /\ i \in 0 .. (n - 1))
              => /\ down.highlightIndex = (i + 1) % n
                 /\ up.highlightIndex = (i - 1 + n) % n
           /\ (n >= 1 /\ i = 0)
              => /\ ArrowDowns(model, n).highlightIndex = 0
                 /\ up.highlightIndex = n - 1

\* three items are visible and the first is highlighted: arrow-up moves to
\* the last, three arrow-downs come back to the first
C15_Witness ==
    /\ isHighlighted(model)
    /\ Len(toVisibleItems(model)) = 3
    /\ model.highlightIndex = 0
    /\ update(model, ArrowUp).model.highlightIndex = 2
    /\ ArrowDowns(model, 1).highlightIndex = 1
    /\ ArrowDowns(model, 3).highlightIndex = 0

(***************************************************************************)
(* C16                                                                     *)
(***************************************************************************)

FocusInput == [type |-> "focused-input"]

\* the text of the first empty item of the list, "" when it has none
FirstEmptyItemText(allItems) ==
    IF \E i \in 1 .. Len(allItems) : isEmptyItem(allItems[i])
    THEN toItemInputValue(
             allItems[CHOOSE i \in 1 .. Len(allItems) :
                          /\ isEmptyItem(allItems[i])
                          /\ \A j \in 1 .. (i - 1) : ~isEmptyItem(allItems[j])])
    ELSE EmptyText

WithoutPosition(items, index) ==
    [k \in 1 .. (Len(items) - 1) |->
         IF k <= index THEN items[k] ELSE items[k + 1]]

\* C17: in selected-item-highlighted with a valid focusedIndex, a
\* pressed-backspace-key that is not swallowed removes exactly the item at
\* focusedIndex, keeps the others in order and gives phase focused__closed.
C17_BackspaceRemovesFocusedChip ==
    (/\ isSelectedItemHighlighted(model)
     /\ model.focusedIndex \in 0 .. (Len(model.selectedItems) - 1)
     /\ ~Swallowed(model, Backspace))
    => LET out == update(model, Backspace).model
       IN  /\ out.type = "focused__closed"
           /\ out.selectedItems
                  = WithoutPosition(model.selectedItems, model.focusedIndex)

\* A, B and C are selected and the chip of A has focus: backspace leaves B, C
C17_Witness ==
    /\ isSelectedItemHighlighted(model)
    /\ model.selectedItems = <<ItemA, ItemB, ItemC>>
    /\ model.focusedIndex = 0
    /\ ~Swallowed(model, Backspace)
    /\ update(model, Backspace).model.selectedItems = <<ItemB, ItemC>>
    /\ update(model, Backspace).model.type = "focused__closed"

(***************************************************************************)
(* C18                                                                     *)
(***************************************************************************)

\* C18 as stated: in focused__closed a pressed-vertical-arrow-key that is not
\* swallowed gives focused__opened__highlighted, in single-select as well as
\* in multi-select.
C18_VerticalArrowHighlights ==
    \A e \in MsgsOf("pressed-vertical-arrow-key") :
        (model.type = "focused__closed" /\ ~Swallowed(model, e))
        => update(model, e).model.type = "focused__opened__highlighted"

\* C18 as amended: in focused__closed a pressed-vertical-arrow-key that is
\* not swallowed opens the dropdown; the phase is focused__opened in
\* single-select and focused__opened__highlighted in multi-select.
C18_VerticalArrowOpens ==
    \A e \in MsgsOf("pressed-vertical-arrow-key") :
        (model.type = "focused__closed" /\ ~Swallowed(model, e))
        => LET out == update(model, e).model
           IN  /\ isOpened(out)
               /\ IsSingleSelect(model) => out.type = "focused__opened"
               /\ IsMultiSelect(model)
                  => out.type = "focused__opened__highlighted"

\* a closed single-select dropdown that arrow-down opens without a highlight
C18_Witness ==
    /\ model.type = "focused__closed"
    /\ IsSingleSelect(model)
    /\ ~Swallowed(model, ArrowDown)
    /\ update(model, ArrowDown).model.type = "focused__opened"
    /\ update(model, ArrowUp).model.type = "focused__opened"

(***************************************************************************)
(* C19                                                                     *)
(***************************************************************************)

\* the arrow of e points toward the chip list of m
TowardChips(m, e) ==
    \/ m.selectMode.selectedItemListDirection = "left-to-right"
           /\ e.key = "arrow-right"
    \/ m.selectMode.selectedItemListDirection = "right-to-left"
           /\ e.key = "arrow-left"

\* C19: from focused__closed, focused__opened or
\* focused__opened__highlighted a pressed-horizontal-arrow-key enters
\* selected-item-highlighted (focusedIndex 0) only in multi-select with a
\* non-empty selection, the arrow pointing toward the chip list and the
\* search text equal to ""; with a non-empty search text the model is
\* unchanged.
C19_HorizontalArrowEntersChips ==
    \A e \in MsgsOf("pressed-horizontal-arrow-key") :
        (/\ model.type \in {"focused__closed", "focused__opened",
                            "focused__opened__highlighted"}
         /\ ~Swallowed(model, e))
        => LET out == update(model, e).model
           IN  /\ isSelectedItemHighlighted(out)
                  => /\ IsMultiSelect(model)
                     /\ isSelected(model)
                     /\ TowardChips(model, e)
                     /\ toSearchValue(model) = EmptyText
                     /\ out.focusedIndex = 0
               /\ toSearchValue(model) # EmptyText => out = model

(***************************************************************************)
(* C20                                                                     *)
(***************************************************************************)

\* C20: whenever update returns a scroll-item-into-view effect, skipOnce of
\* the returned model holds exactly one hovered-over-item, whatever was
\* pending before and also when the dropdown just opened; only a
\* pressed-input entry may follow it, which is there exactly when the input
\* gained focus from blurred or from selected-item-highlighted.
C20_ScrollLeavesOneHoverSkip ==
    \A e \in Msgs :
        (~Swallowed(model, e) /\ HasScroll(update(model, e).effects))
        => LET out == update(model, e).model
           IN  IF (isBlurred(model) \/ isSelectedItemHighlighted(model))
                  /\ isFocused(out)
               THEN out.skipOnce = <<HoveredOverItem, PressedInput>>
               ELSE out.skipOnce = <<HoveredOverItem>>

\* a blurred model with an item selected and suppressions pending: focusing
\* the input opens the dropdown, scrolls to the item and overwrites them
C20_Witness ==
    /\ isBlurred(model)
    /\ isSelected(model)
    /\ Len(model.skipOnce) = 2
    /\ HasScroll(update(model, FocusInput).effects)
    /\ isOpened(update(model, FocusInput).model)
    /\ update(model, FocusInput).model.skipOnce
           = <<HoveredOverItem, PressedInput>>

(***************************************************************************)
(* C21                                                                     *)
(***************************************************************************)

\* the number of entries of list equal to t
Count(list, t) == Cardinality({i \in 1 .. Len(list) : list[i] = t})

\* the number of pressed-input entries the update of m with result out added
\* to skipOnce: the rule for a scroll effect discards the pending entries,
\* and no other step of update before the last rule touches pressed-input
PressSkipsAdded(m, out) ==
    Count(out.model.skipOnce, PressedInput)
        - (IF HasScroll(out.effects) THEN 0
           ELSE Count(m.skipOnce, PressedInput))

\* the input has focus in phase type
InputFocused(type) ==
    type \in {"focused__closed", "focused__opened",
              "focused__opened__highlighted"}

\* C21: an update that is not swallowed adds one pressed-input entry to
\* skipOnce when the phase before is blurred or selected-item-highlighted and
\* the phase after is focused__closed, focused__opened or
\* focused__opened__highlighted, and adds none otherwise; in particular none
\* when it stays in or enters selected-item-highlighted.
C21_PressSkipOnlyOnInputFocus ==
    \A e \in Msgs :
        ~Swallowed(model, e)
        => LET out == update(model, e)
           IN  PressSkipsAdded(model, out) =
                   IF (isBlurred(model) \/ isSelectedItemHighlighted(model))
                      /\ InputFocused(out.model.type)
                   THEN 1
                   ELSE 0

(***************************************************************************)
(* C22                                                                     *)
(***************************************************************************)

\* the effect list asks the host to focus the input
HasFocusInput(effs) ==
    \E i \in 1 .. Len(effs) : effs[i].type = "focus-input"

\* C22: in every phase a pressed-input that is not swallowed returns an
\* effect list that contains focus-input.
C22_PressRequestsFocus ==
    ~Swallowed(model, PressInput)
    => HasFocusInput(update(model, PressInput).effects)

\* a chip has focus and no press is pending: the press on the input is not
\* handled by the phase and still requests the focus
C22_Witness ==
    /\ isSelectedItemHighlighted(model)
    /\ ~Swallowed(model, PressInput)
    /\ update(model, PressInput).model.type = "selected-item-highlighted"
    /\ HasFocusInput(update(model, PressInput).effects)

(***************************************************************************)
(* C23                                                                     *)
(***************************************************************************)

\* the effect list asks the host to focus a chip
HasFocusSelectedItem(effs) ==
    \E i \in 1 .. Len(effs) : effs[i].type = "focus-selected-item"

\* m is in selected-item-highlighted and focusedIndex is no position of
\* selectedItems
FocusedIndexOutside(m) ==
    /\ isSelectedItemHighlighted(m)
    /\ m.focusedIndex \notin 0 .. (Len(m.selectedItems) - 1)

\* C23: with highlightIndex outside the visible list toHighlightedItem is
\* null and isItemHighlighted is false for every item; with focusedIndex
\* outside selectedItems (-1 included) isSelectedItemFocused is false for
\* every item, selected or not, and an update that returns such a model
\* returns no focus-selected-item effect.
C23_OutOfRangeIsNothing ==
    /\ (isHighlighted(model)
            /\ ~ValidVisibleIndex(model, model.highlightIndex))
       => /\ toHighlightedItem(model) = Null
          /\ \A item \in Items : ~isItemHighlighted(model, item)
    /\ FocusedIndexOutside(model)
       => \A item \in Items : ~isSelectedItemFocused(model, item)
    /\ \A e \in Msgs :
           FocusedIndexOutside(update(model, e).model)
           => ~HasFocusSelectedItem(update(model, e).effects)

(***************************************************************************)
(* C24                                                                     *)
(***************************************************************************)

EnterKey == [type |-> "pressed-enter-key"]

\* the result of an event on the empty item: nothing is selected, the empty
\* item itself included, and the dropdown is closed
SelectionCleared(out, item) ==
    /\ out.selectedItems = <<>>
    /\ ~isItemSelected(out, item)
    /\ isClosed(out)

\* C24: pressing an item for which isEmptyItem holds, in focused__opened or
\* focused__opened__highlighted, or entering it while it is the highlighted
\* item, empties selectedItems, does not select the item and closes the
\* dropdown.
C24_EmptyItemClearsSelection ==
    /\ \A item \in Items :
           (/\ isEmptyItem(item)
            /\ isOpened(model)
            /\ ~Swallowed(model, PressItem(item)))
           => SelectionCleared(update(model, PressItem(item)).model, item)
    /\ (/\ isHighlighted(model)
        /\ toHighlightedItem(model) # Null
        /\ isEmptyItem(toHighlightedItem(model))
        /\ ~Swallowed(model, EnterKey))
       => SelectionCleared(update(model, EnterKey).model,
                           toHighlightedItem(model))

(***************************************************************************)
(* C25                                                                     *)
(***************************************************************************)

\* C25: in search-mode an inputted-value with a non-empty text that is not
\* swallowed, in focused__opened__highlighted, resets the highlight: the
\* returned model is not in focused__opened__highlighted and has no
\* highlighted item.
C25_TypingResetsHighlight ==
    \A e \in MsgsOf("inputted-value") :
        (/\ isHighlighted(model)
         /\ InSearchMode(model)
         /\ e.inputValue # EmptyText
         /\ ~Swallowed(model, e))
        => LET out == update(model, e).model
           IN  /\ ~isHighlighted(out)
               /\ toHighlightedItem(out) = Null

(***************************************************************************)
(* C26                                                                     *)
(***************************************************************************)

\* C26: a pressed-input event on the initial blurred model (blurred, empty
\* skipOnce) yields a model that is focused, not blurred, and whose dropdown
\* is opened.
C26_PressOnBlurredOpens ==
    (/\ isBlurred(model)
     /\ model.skipOnce = <<>>)
    => LET out == update(model, PressInput).model
       IN  /\ isFocused(out)
           /\ ~isBlurred(out)
           /\ isOpened(out)

(***************************************************************************)
(* C27                                                                     *)
(***************************************************************************)

\* a deterministicFilter, named by what it returns for a model: the
\* substring filter, or every item of the model (a caller that filters
\* elsewhere)
applyFilter(filter, m) ==
    IF filter = "simpleFilter" THEN simpleFilter(m) ELSE m.allItems

\* the argument of initConfig: a record holding the fields the caller
\* supplied; the optional fields may be absent
initConfig(caller) ==
    LET configFull ==
            [toItemId            |-> caller.toItemId,
             toItemInputValue    |-> caller.toItemInputValue,
             isEmptyItem         |-> IF "isEmptyItem" \in DOMAIN caller
                                        THEN caller.isEmptyItem
                                        ELSE [item \in Items |-> FALSE],
             namespace           |-> IF "namespace" \in DOMAIN caller
                                        THEN caller.namespace
                                        ELSE "combobox",
             deterministicFilter |-> "allItems"]
    IN  [configFull EXCEPT !.deterministicFilter = "simpleFilter"]

\* toVisibleItems for a given config
toVisibleItemsWith(config, m) ==
    IF m.inputMode.type = "select-only" THEN m.allItems
    ELSE applyFilter(config.deterministicFilter, m)

\* a caller that supplies only the required fields
RequiredOnly ==
    [toItemId |-> "id", toItemInputValue |-> "label"]

\* a caller that supplies every field, with its own filter
WithFilter(filter) ==
    [toItemId            |-> "id",
     toItemInputValue    |-> "label",
     isEmptyItem         |-> [item \in Items |-> isEmptyItem(item)],
     namespace           |-> "picker",
     deterministicFilter |-> filter]

\* C27: initConfig applies defaults only to omitted fields: namespace
\* defaults to "combobox", isEmptyItem to always-false and
\* deterministicFilter to the substring filter; a supplied field is kept,
\* and with a supplied deterministicFilter toVisibleItems in search-mode
\* returns that filter's result.
C27_InitConfigKeepsCallerFilter ==
    /\ initConfig(RequiredOnly).namespace = "combobox"
    /\ \A item \in Items : ~initConfig(RequiredOnly).isEmptyItem[item]
    /\ InSearchMode(model)
       => toVisibleItemsWith(initConfig(RequiredOnly), model)
              = simpleFilter(model)
    /\ initConfig(WithFilter("allItems")).namespace = "picker"
    /\ \A item \in Items :
           initConfig(WithFilter("allItems")).isEmptyItem[item]
               = isEmptyItem(item)
    /\ InSearchMode(model)
       => toVisibleItemsWith(initConfig(WithFilter("allItems")), model)
              = applyFilter("allItems", model)

(***************************************************************************)
(* C28                                                                     *)
(***************************************************************************)

PressUnselect(item) == [type |-> "pressed-unselect-button", item |-> item]

\* C28: after a pressed-unselect-button(item) that is not swallowed, in any
\* phase, no selected item has item's id, also when item was the only
\* selected item; in selected-item-highlighted the phase becomes
\* focused__closed when the list becomes empty, and otherwise focusedIndex
\* lies inside the shorter list.
C28_UnselectButtonRemoves ==
    \A item \in Items :
        ~Swallowed(model, PressUnselect(item))
        => LET out == update(model, PressUnselect(item)).model
           IN  /\ \A i \in 1..Len(out.selectedItems) :
                      toItemId(out.selectedItems[i]) # toItemId(item)
               /\ model.type = "selected-item-highlighted"
                  => IF out.selectedItems = <<>>
                     THEN out.type = "focused__closed"
                     ELSE /\ out.type = "selected-item-highlighted"
                          /\ out.focusedIndex >= 0
                          /\ out.focusedIndex < Len(out.selectedItems)

(***************************************************************************)
(* C29                                                                     *)
(***************************************************************************)

\* C29: in multi-select search-mode an inputted-value(text) that is not
\* swallowed, received in focused__closed, focused__opened,
\* focused__opened__highlighted or selected-item-highlighted, stores text
\* as the input value, leaves the dropdown opened and leaves selectedItems
\* unchanged.
C29_TypingKeepsSelection ==
    \A e \in MsgsOf("inputted-value") :
        (/\ IsMultiSelect(model)
         /\ InSearchMode(model)
         /\ isFocused(model)
         /\ ~Swallowed(model, e))
        => LET out == update(model, e).model
           IN  /\ out.inputMode = [type |-> "search-mode",
                                   inputValue |-> e.inputValue]
               /\ isOpened(out)
               /\ out.selectedItems = model.selectedItems

(***************************************************************************)
(* C30                                                                     *)
(***************************************************************************)

\* the phases in which the input or a chip has focus and the dropdown is
\* closed
ClosedFocused(m) == isFocused(m) /\ isClosed(m)

\* the highlight that pressed-vertical-arrow-key is claimed to seed: the
\* position of the first selected item in the visible items of m, else 0
SeededHighlight(m) ==
    IF toSelectedItemIndex(m) = NullIndex THEN 0 ELSE toSelectedItemIndex(m)

\* C30: when pressed-vertical-arrow-key opens the dropdown from a closed
\* focused phase, the returned highlightIndex is the position of the first
\* selected item in the visible items of the returned model when a selected
\* item is visible there, else 0; the highlighted item of the returned
\* model is then a selected item whenever one is visible.
C30_ArrowSeedsHighlightAtSelection ==
    \A e \in MsgsOf("pressed-vertical-arrow-key") :
        (/\ ClosedFocused(model)
         /\ ~Swallowed(model, e))
        => LET out == update(model, e).model
           IN  /\ isOpened(out)
               /\ isHighlighted(out)
               /\ out.highlightIndex = SeededHighlight(out)
               /\ toSelectedItemIndex(out) # NullIndex
                  => /\ toHighlightedItem(out) # Null
                     /\ isItemSelected(out, toHighlightedItem(out))

(***************************************************************************)
(* C31                                                                     *)
(***************************************************************************)

\* the arrow of e points from the chip list of m toward the input
TowardInput(m, e) ==
    \/ m.selectMode.selectedItemListDirection = "left-to-right"
           /\ e.key = "arrow-left"
    \/ m.selectMode.selectedItemListDirection = "right-to-left"
           /\ e.key = "arrow-right"

\* m is in selected-item-highlighted in multi-select and its focusedIndex is
\* a position of selectedItems
OnChip(m) ==
    /\ isSelectedItemHighlighted(m)
    /\ IsMultiSelect(m)
    /\ m.focusedIndex \in 0 .. (Len(m.selectedItems) - 1)

\* C31: in selected-item-highlighted in multi-select with focusedIndex in
\* 0..len-1, a horizontal arrow pointing away from the input moves
\* focusedIndex by +1 but never beyond len-1, an arrow toward the input moves
\* it by -1, and at focusedIndex 0 an arrow toward the input exits to
\* focused__closed with selectedItems unchanged; focusedIndex never wraps.
C31_ChipArrowsClamp ==
    \A e \in MsgsOf("pressed-horizontal-arrow-key") :
        (OnChip(model) /\ ~Swallowed(model, e))
        => LET out == update(model, e).model
               len == Len(model.selectedItems)
           IN  IF TowardInput(model, e)
               THEN IF model.focusedIndex = 0
                    THEN /\ out.type = "focused__closed"
                         /\ out.selectedItems = model.selectedItems
                    ELSE /\ isSelectedItemHighlighted(out)
                         /\ out.focusedIndex = model.focusedIndex - 1
                         /\ out.selectedItems = model.selectedItems
               ELSE /\ isSelectedItemHighlighted(out)
                    /\ out.focusedIndex =
                           (IF model.focusedIndex = len - 1
                            THEN len - 1 ELSE model.focusedIndex + 1)
                    /\ out.selectedItems = model.selectedItems

\* a chip list of several items whose last chip has focus, which an arrow
\* away from the input leaves in place
C31_Witness ==
    /\ OnChip(model)
    /\ Len(model.selectedItems) >= 2
    /\ model.focusedIndex = Len(model.selectedItems) - 1
    /\ \E e \in MsgsOf("pressed-horizontal-arrow-key") :
           /\ ~TowardInput(model, e)
           /\ ~Swallowed(model, e)
           /\ update(model, e).model.focusedIndex = model.focusedIndex

(***************************************************************************)
(* C32                                                                     *)
(***************************************************************************)

\* the effect list asks the host to scroll item into view
ScrollsTo(effs, item) ==
    \E i \in 1 .. Len(effs) :
        effs[i] = [type |-> "scroll-item-into-view", item |-> item]

\* the update of m that returned next opened the dropdown
Opens(m, next) == isClosed(m) /\ isOpened(next)

\* C32: an update whose input model has the dropdown closed and whose
\* output model has it open with a non-empty selection returns
\* scroll-item-into-view for selectedItems[0] of the output model; an update
\* that neither opens the dropdown nor handles a pressed-vertical-arrow-key
\* (a hovered-over-item in particular) returns no scroll-item-into-view.
C32_ScrollOnOpenOnly ==
    \A e \in Msgs :
        LET out == update(model, e)
        IN  /\ (Opens(model, out.model) /\ isSelected(out.model))
               => ScrollsTo(out.effects, out.model.selectedItems[1])
            /\ (~Opens(model, out.model)
                    /\ e.type # "pressed-vertical-arrow-key")
               => ~HasScroll(out.effects)

\* a closed model that an event opens with a non-empty selection
C32_Witness ==
    \E e \in Msgs :
        LET out == update(model, e)
        IN  /\ Opens(model, out.model)
            /\ isSelected(out.model)
            /\ ScrollsTo(out.effects, out.model.selectedItems[1])

(***************************************************************************)
(* C33                                                                     *)
(***************************************************************************)

\* the effect list asks the host to focus the chip of item
FocusesChip(effs, item) ==
    \E i \in 1 .. Len(effs) :
        effs[i] = [type |-> "focus-selected-item", item |-> item]

\* the chip focus effects of the update of m that returned out
ChipFocusEffects(m, out) ==
    /\ (/\ isSelectedItemHighlighted(out.model)
        /\ out.model.focusedIndex
               \in 0 .. (Len(out.model.selectedItems) - 1))
       => FocusesChip(out.effects,
                      At(out.model.selectedItems, out.model.focusedIndex))
    /\ (isSelectedItemHighlighted(m)
            /\ ~isSelectedItemHighlighted(out.model))
       => HasFocusInput(out.effects)

\* C33 as stated: every update whose output phase is
\* selected-item-highlighted with a valid focusedIndex returns
\* focus-selected-item for selectedItems[focusedIndex] of the output model,
\* and every update that goes from selected-item-highlighted to another phase
\* returns focus-input.
C33_ChipFocusOnEveryUpdate ==
    \A e \in Msgs : ChipFocusEffects(model, update(model, e))

\* C33: the same for every update whose event is not swallowed; a swallowed
\* event returns no effect, also when the phase is selected-item-highlighted.
C33_ChipFocusUnlessSwallowed ==
    \A e \in Msgs :
        IF Swallowed(model, e)
        THEN update(model, e).effects = <<>>
        ELSE ChipFocusEffects(model, update(model, e))

\* a chip has focus, an event moves the focus to another chip and another
\* event leaves the chips
C33_Witness ==
    /\ OnChip(model)
    /\ \E e \in Msgs :
           /\ ~Swallowed(model, e)
           /\ OnChip(update(model, e).model)
           /\ update(model, e).model.focusedIndex # model.focusedIndex
    /\ \E e \in Msgs :
           /\ ~Swallowed(model, e)
           /\ ~isSelectedItemHighlighted(update(model, e).model)
           /\ HasFocusInput(update(model, e).effects)

(***************************************************************************)
(* C34                                                                     *)
(***************************************************************************)

SetterTarget(m, e) ==
    CASE e.type = "set-all-items" -> Spread(m, [allItems |-> e.allItems])
      [] e.type = "set-selected-items" ->
             Spread(m, [selectedItems |-> e.selectedItems])
      [] e.type = "set-mode" -> Spread(m, [selectMode |-> e.mode])
      [] e.type = "set-input-value" ->
             IF InSearchMode(m)
             THEN Spread(m, [inputMode |-> [type |-> "search-mode",
                                            inputValue |-> e.inputValue]])
             ELSE m
      [] e.type = "set-highlight-index" ->
             IF isHighlighted(m)
             THEN Spread(m, [highlightIndex |-> e.highlightIndex])
             ELSE m

\* C35: a setter that is not swallowed changes only its target: set-all-items
\* only allItems, set-selected-items only selectedItems, set-mode only
\* selectMode, set-input-value only the search text, set-highlight-index
\* only highlightIndex; the phase tag and every other field stay as they
\* were in every phase, and set-input-value in select-only and
\* set-highlight-index outside the highlighted phase leave the model
\* unchanged.
C35_SettersChangeOnlyTarget ==
    \A e \in Msgs :
        (e.type \in SetterTypes /\ ~Swallowed(model, e))
        => update(model, e).model = SetterTarget(model, e)

(***************************************************************************)
(* C36                                                                     *)
(***************************************************************************)

\* the event types the suppression rules schedule
SkippableTypes == {HoveredOverItem, PressedInput}

OnlySkippable(skipOnce) ==
    \A i \in 1 .. Len(skipOnce) : skipOnce[i] \in SkippableTypes

\* C36: in every reachable model skipOnce contains only hovered-over-item
\* and pressed-input entries, also after one more update with any event, so
\* that no event of another type is swallowed.
C36_OnlyHoverAndPressSkipped ==
    /\ OnlySkippable(model.skipOnce)
    /\ \A e \in Msgs :
           /\ OnlySkippable(update(model, e).model.skipOnce)
           /\ e.type \notin SkippableTypes => ~Swallowed(model, e)

\* both kinds of suppression are pending at once
C36_Witness ==
    /\ Includes(model.skipOnce, HoveredOverItem)
    /\ Includes(model.skipOnce, PressedInput)
    /\ \E e \in Msgs :
           /\ e.type \notin SkippableTypes
           /\ update(model, e).model # model

(***************************************************************************)
(* C37                                                                     *)
(***************************************************************************)

\* C37: in every reachable model skipOnce holds at most two
\* hovered-over-item entries and at most one pressed-input entry:
\* suppressions do not accumulate when the expected event never arrives.
C37_SuppressionsBounded ==
    /\ Count(model.skipOnce, HoveredOverItem) <= 2
    /\ Count(model.skipOnce, PressedInput) <= 1

(***************************************************************************)
(* C38                                                                     *)
(***************************************************************************)

\* every event but set-selected-items
NextWithoutSetSelectedItems ==
    \/ PressedHorizontalArrowKey
    \/ PressedVerticalArrowKey
    \/ PressedBackspaceKey
    \/ PressedEscapeKey
    \/ PressedEnterKey
    \/ PressedKey
    \/ PressedItem
    \/ FocusedInput
    \/ BlurredInput
    \/ InputtedValue
    \/ HoveredOver
    \/ PressedInputBox
    \/ PressedUnselectAllButton
    \/ PressedUnselectButton
    \/ FocusedSelectedItem
    \/ BlurredSelectedItem
    \/ SetAllItems
    \/ SetInputValue
    \/ SetHighlightIndex
    \/ SetMode

\* the behaviours in which the caller never sets the selection itself
SpecWithoutSetSelectedItems == Init /\ [][NextWithoutSetSelectedItems]_vars

\* C38: for every sequence of events that contains no set-selected-items,
\* selectedItems never contains two items with the same toItemId, in
\* single-select and in multi-select, also after one more such event.
C38_NoDuplicateSelection ==
    /\ NoDuplicateIds(model.selectedItems)
    /\ \A e \in Msgs :
           e.type # "set-selected-items"
           => NoDuplicateIds(update(model, e).model.selectedItems)

\* two items are selected in multi-select and a third one is pressed or
\* entered into the selection
C38_Witness ==
    /\ IsMultiSelect(model)
    /\ Len(model.selectedItems) >= 2
    /\ \E e \in MsgsOf("pressed-item") \cup MsgsOf("pressed-enter-key") :
           /\ ~Swallowed(model, e)
           /\ Len(update(model, e).model.selectedItems)
                  > Len(model.selectedItems)

(***************************************************************************)
(* C39                                                                     *)
(***************************************************************************)

\* C39: update never changes allItems except on set-all-items, never changes
\* selectMode except on set-mode, and never changes inputMode.type on any
\* event: a select-only model stays select-only and a search-mode model
\* stays search-mode.
C39_ConfigurationFrame ==
    \A e \in Msgs :
        LET out == update(model, e).model
        IN  /\ e.type # "set-all-items" => out.allItems = model.allItems
            /\ e.type # "set-mode" => out.selectMode = model.selectMode
            /\ out.inputMode.type = model.inputMode.type

\* a select-only model with a selection whose input text an event resets,
\* and which set-all-items and set-mode change
C39_Witness ==
    /\ model.inputMode.type = "select-only"
    /\ isSelected(model)
    /\ isOpened(model)
    /\ \E e \in MsgsOf("pressed-enter-key") :
           /\ ~Swallowed(model, e)
           /\ update(model, e).model.type # model.type
    /\ \E e \in MsgsOf("set-all-items") :
           update(model, e).model.allItems # model.allItems
    /\ \E e \in MsgsOf("set-mode") :
           update(model, e).model.selectMode # model.selectMode

(***************************************************************************)
(* C40                                                                     *)
(***************************************************************************)

\* C40: for every reachable blurred model, toCurrentInputValue is the same
\* before and after a focused-input that is not swallowed: focusing the
\* input never changes the text it displays.
C40_FocusKeepsDisplayedText ==
    (isBlurred(model) /\ ~Swallowed(model, FocusInput))
    => toCurrentInputValue(update(model, FocusInput).model)
           = toCurrentInputValue(model)

\* a blurred search-mode model whose stored text is not the text it
\* displays, and which the focus makes store the displayed text
C40_Witness ==
    /\ isBlurred(model)
    /\ InSearchMode(model)
    /\ toSearchValue(model) # toCurrentInputValue(model)
    /\ ~Swallowed(model, FocusInput)
    /\ toSearchValue(update(model, FocusInput).model)
           = toCurrentInputValue(model)

====
